---- MODULE Spec2Model ----
(***************************************************************************)
(* x_violet: interaction ledger, action dispatcher, provider fallback      *)
(* managers, content scheduler and the agent control loop.                 *)
(*                                                                         *)
(* The module holds seven specifications over one set of variables:        *)
(*   SpecDispatch  InteractionStore + ActionManager (storage.py, actions.py)*)
(*   SpecFallback  LLMFallbackManager / VectorStoreFallbackManager         *)
(*   SpecVector    VectorStoreFallbackManager over a list of stores        *)
(*   SpecSched     Scheduler.run_schedule_cycle (scheduler.py)             *)
(*   SpecLoop      XVioletAgent.run (agent.py)                             *)
(*   SpecOnce      XVioletAgent.run_once (agent.py)                        *)
(*   SpecLogin     TwitterClient.login (client/twitter_client.py)          *)
(* Each specification moves its own variables and leaves the others alone. *)
(***************************************************************************)
EXTENDS Integers, Sequences, FiniteSets, TLC

(***************************************************************************)
(* Bounds                                                                  *)
(***************************************************************************)
NumIds == 2
MaxOps == 3
MaxConfigs == 4
NumFiles == 2
MaxTotal == 2
MaxCycles == 2
MaxCap == 3
MaxTimeline == 2
MaxStores == 2
MaxLogins == 2

Ids == 1..NumIds

(***************************************************************************)
(* Variables                                                               *)
(***************************************************************************)
VARIABLES
  data,        \* InteractionStore.data["interacted_tweets"], a list of ids
  file,        \* content of interactions.json: the list of ids, or Corrupt
  lastOp,      \* the last ledger / dispatch operation and what it did
  okCalls,     \* per id: Twitter client calls that returned, made by dispatch with conversation=false
  allCalls,    \* per id: Twitter client calls made by dispatch with conversation=false
  addedOK,     \* ids whose add_interaction returned, with no remove_interaction(id) / clear since
  everRemoved, \* remove_interaction or clear was executed on this store
  opCount,     \* number of operations run so far
  llmConfigs,  \* llm_provider_configs handed to LLMFallbackManager.__init__
  providers,   \* LLMFallbackManager.providers: positions in llmConfigs, in order
  storeConfigs, \* the store configuration list VectorStoreFallbackManager is built from
  stores,      \* VectorStoreFallbackManager.stores, or Unset when the attribute does not exist
  fbOp,        \* the fallback-manager operation in progress or last finished
  config,      \* AgentConfig fields read by the scheduling loop
  mediaDir,    \* names of the files in config.media_dir
  used_media_set, \* the in-memory set of used media filenames
  usedLog,     \* lines of data/used_media.txt appended by mark_media_as_used
  schedPc,     \* position in run_schedule_cycle: "idle", "slots", "done"
  slotIdx,     \* iterations of the slot loop started in this cycle
  scheduled_in_this_cycle,
  media_scheduled_this_cycle,
  context,     \* formatted_context_for_cycle is non-empty
  lastSlot,    \* what the last slot did
  cycleStats,  \* what this cycle did so far
  mediaPosts,  \* per filename: schedule calls that returned with that file attached
  cyclesRun,   \* scheduling cycles started
  runCfg,      \* AgentConfig fields read by XVioletAgent.run outside the slot loop
  llmKind,     \* what self.llm is: "async", "sync" (a stand-in with plain methods) or "none"
  max_cycles,  \* argument of run: <<>> for None, <<N>> for N
  loopPc,      \* position in run: "new", "top", "slots", "exited", "raised"
  cycles,      \* the loop's cycle counter
  now,         \* the last time.time() read by run
  next_action,
  next_post,
  actionPasses, \* calls of run_once made by run
  postStarts,  \* post-generation cycles entered by run
  postDone,    \* post-generation cycles that reached the next_post assignment
  iterTasks,   \* the tasks the current pass of the loop has begun, in order
  max_actions_processing, \* config.max_actions_processing
  polled,      \* what twitter.poll() returned to run_once
  timeline,    \* timeline[:limit], the tweets run_once goes through
  oncePc,      \* position in run_once: "new", "tweets", "returned"
  tweetIdx,    \* tweets of timeline gone through
  dispatchCalls, \* calls of ActionManager.dispatch made by run_once
  llmCalls,    \* calls of self.llm methods made by run_once
  ledgerAtStart, \* the ledger (memory, file) when run_once was entered
  authCfg,     \* AgentConfig fields read by TwitterClient.login, by truthiness
  twClient,    \* TwitterClient.client: "None" or "Client"
  logged_in,   \* TwitterClient.logged_in
  loginPc,     \* position in login: "idle", "attempts", "returned", "raised"
  methodIdx,   \* the authentication block login has reached (1..3), 4 past the last
  lastLogin,   \* what the current or last login call did
  loginCalls   \* calls of login made so far

storeVars == <<data, file, lastOp, okCalls, allCalls, addedOK, everRemoved, opCount>>

fbVars == <<llmConfigs, providers, storeConfigs, stores, fbOp>>

schedVars == <<config, mediaDir, used_media_set, usedLog, schedPc, slotIdx,
               scheduled_in_this_cycle, media_scheduled_this_cycle, context,
               lastSlot, cycleStats, mediaPosts, cyclesRun>>

loopVars == <<runCfg, llmKind, max_cycles, loopPc, cycles, now, next_action, next_post,
              actionPasses, postStarts, postDone, iterTasks>>

onceVars == <<max_actions_processing, polled, timeline, oncePc, tweetIdx,
              dispatchCalls, llmCalls, ledgerAtStart>>

loginVars == <<authCfg, twClient, logged_in, loginPc, methodIdx, lastLogin, loginCalls>>

vars == <<storeVars, fbVars, schedVars, loopVars, onceVars, loginVars>>

(***************************************************************************)
(* storage.py : InteractionStore                                           *)
(***************************************************************************)
Corrupt == "corrupt"

\* outcomes of opening interactions.json for writing and dumping the JSON
SaveOutcomes == {"ok", "open_fails", "write_fails"}

\* json.load of the ledger file: the list stored under "interacted_tweets"
load(f) == f

\* has_interacted: tweet_id in self.data.get("interacted_tweets", [])
has_interacted(d, tweet_id) == \E k \in DOMAIN d : d[k] = tweet_id

\* _save: open(path, "w") truncates the file, json.dump writes self.data
save(d, f, io) ==
  IF io = "ok" THEN [file |-> d, raised |-> FALSE]
  ELSE IF io = "open_fails" THEN [file |-> f, raised |-> TRUE]
  ELSE [file |-> Corrupt, raised |-> TRUE]

\* list.remove: drops the first occurrence of tweet_id
RECURSIVE list_remove(_, _)
list_remove(d, tweet_id) ==
  IF d = <<>> THEN <<>>
  ELSE IF Head(d) = tweet_id THEN Tail(d)
  ELSE <<Head(d)>> \o list_remove(Tail(d), tweet_id)

\* a mutant of add_interaction: the membership test is dropped
add_interaction_always_append(d, f, tweet_id, io) ==
  LET sv == save(Append(d, tweet_id), f, io)
  IN  [data |-> Append(d, tweet_id), file |-> sv.file, raised |-> sv.raised]

add_interaction(d, f, tweet_id, io) ==
  IF ~has_interacted(d, tweet_id)
  THEN LET d2 == Append(d, tweet_id)
           sv == save(d2, f, io)
       IN  [data |-> d2, file |-> sv.file, raised |-> sv.raised]
  ELSE [data |-> d, file |-> f, raised |-> FALSE]

remove_interaction(d, f, tweet_id, io) ==
  IF has_interacted(d, tweet_id)
  THEN LET d2 == list_remove(d, tweet_id)
           sv == save(d2, f, io)
       IN  [data |-> d2, file |-> sv.file, raised |-> sv.raised]
  ELSE [data |-> d, file |-> f, raised |-> FALSE]

clear(d, f, io) ==
  LET sv == save(<<>>, f, io)
  IN  [data |-> <<>>, file |-> sv.file, raised |-> sv.raised]

(***************************************************************************)
(* actions.py : ActionManager                                              *)
(***************************************************************************)
SUPPORTED_ACTIONS == {"QUOTE_TWEET", "REPLY", "LIKE", "RETWEET"}

\* action strings handed to dispatch: the supported ones and two that are not
ActionKinds == SUPPORTED_ACTIONS \cup {"FOLLOW", "reply"}

\* what a Twitter client method does when called: returns a value or raises
TwOutcomes == {"True", "False", "raise"}

should_interact_flag_only(d, tweet_id, conversation) == conversation

should_interact_always(d, tweet_id, conversation) == TRUE

should_interact_never_repeat(d, tweet_id, conversation) ==
  ~has_interacted(d, tweet_id)

should_interact(d, tweet_id, conversation) ==
  IF conversation THEN TRUE ELSE ~has_interacted(d, tweet_id)

record_interaction(d, f, tweet_id, io) == add_interaction(d, f, tweet_id, io)

guarded_call_record_first(d, f, tweet_id, conversation, method, tw, io) ==
  IF ~should_interact(d, tweet_id, conversation)
  THEN [data |-> d, file |-> f, ret |-> "False", called |-> "none", tw |-> "none"]
  ELSE LET r == record_interaction(d, f, tweet_id, io)
       IN  [data |-> r.data, file |-> r.file,
            ret |-> IF r.raised \/ tw = "raise" THEN "raised" ELSE "True",
            called |-> IF r.raised THEN "none" ELSE method,
            tw |-> IF r.raised THEN "none" ELSE tw]

\* common body of quote_tweet / reply / like / retweet:
\* gate, client call, record, return True
guarded_call(d, f, tweet_id, conversation, method, tw, io) ==
  IF ~should_interact(d, tweet_id, conversation)
  THEN [data |-> d, file |-> f, ret |-> "False", called |-> "none", tw |-> "none"]
  ELSE IF tw = "raise"
  THEN [data |-> d, file |-> f, ret |-> "raised", called |-> method, tw |-> tw]
  ELSE LET r == record_interaction(d, f, tweet_id, io)
       IN  [data |-> r.data, file |-> r.file,
            ret |-> IF r.raised THEN "raised" ELSE "True",
            called |-> method, tw |-> tw]

quote_tweet(d, f, tweet_id, tw, io) ==
  guarded_call(d, f, tweet_id, FALSE, "quote_tweet", tw, io)

reply(d, f, tweet_id, conversation, tw, io) ==
  guarded_call(d, f, tweet_id, conversation, "reply", tw, io)

like(d, f, tweet_id, tw, io) ==
  guarded_call(d, f, tweet_id, FALSE, "like", tw, io)

retweet(d, f, tweet_id, tw, io) ==
  guarded_call(d, f, tweet_id, FALSE, "retweet", tw, io)

dispatch_else_like(d, f, action, tweet_id, conversation, tw, io) ==
  IF action = "QUOTE_TWEET" THEN quote_tweet(d, f, tweet_id, tw, io)
  ELSE IF action = "REPLY" THEN reply(d, f, tweet_id, conversation, tw, io)
  ELSE IF action = "RETWEET" THEN retweet(d, f, tweet_id, tw, io)
  ELSE like(d, f, tweet_id, tw, io)

dispatch(d, f, action, tweet_id, conversation, tw, io) ==
  IF action = "QUOTE_TWEET" THEN quote_tweet(d, f, tweet_id, tw, io)
  ELSE IF action = "REPLY" THEN reply(d, f, tweet_id, conversation, tw, io)
  ELSE IF action = "LIKE" THEN like(d, f, tweet_id, tw, io)
  ELSE IF action = "RETWEET" THEN retweet(d, f, tweet_id, tw, io)
  ELSE [data |-> d, file |-> f, ret |-> "False", called |-> "none", tw |-> "none"]

\* the outcomes of the client call of a dispatch: drawn only when one is made
ClientOutcomesFor(d, f, action, tweet_id, conversation) ==
  IF dispatch(d, f, action, tweet_id, conversation, "True", "ok").called = "none"
  THEN {"True"} ELSE TwOutcomes

\* the outcomes of the save of a dispatch: drawn only when the ledger is written
SaveOutcomesFor(d, f, action, tweet_id, conversation, tw) ==
  IF dispatch(d, f, action, tweet_id, conversation, tw, "ok").data = d
  THEN {"ok"} ELSE SaveOutcomes

\* the record kept of the last ledger / dispatch operation, before any ran
NoOp == [op |-> "init", id |-> 0, action |-> "none", conversation |-> FALSE,
         ret |-> "none", called |-> "none", tw |-> "none",
         inLedgerBefore |-> FALSE, okBefore |-> 0, noConvOnly |-> TRUE]

(***************************************************************************)
(* llm/fallback_manager.py : LLMFallbackManager                            *)
(***************************************************************************)
\* one entry of llm_provider_configs, by what __init__ does with it
ConfigKinds == {"ok", "disabled", "no_type", "unknown_type", "ctor_raises"}

RECURSIVE SeqsUpTo(_, _)
SeqsUpTo(S, n) ==
  IF n = 0 THEN {<<>>}
  ELSE LET shorter == SeqsUpTo(S, n - 1)
       IN  shorter \cup {Append(q, x) : q \in {r \in shorter : Len(r) = n - 1}, x \in S}

\* a mutant of the constructor: the first entry whose constructor raises ends
\* the construction of the entries after it
RECURSIVE llm_init_abort_on_raise(_, _)
llm_init_abort_on_raise(configs, k) ==
  IF k > Len(configs) THEN <<>>
  ELSE IF configs[k] = "ok" THEN <<k>> \o llm_init_abort_on_raise(configs, k + 1)
  ELSE IF configs[k] = "ctor_raises" THEN <<>>
  ELSE llm_init_abort_on_raise(configs, k + 1)

\* LLMFallbackManager.__init__: one provider per enabled entry with a known
\* type whose constructor did not raise, in configuration order
RECURSIVE llm_init(_, _)
llm_init(configs, k) ==
  IF k > Len(configs) THEN <<>>
  ELSE IF configs[k] = "ok" THEN <<k>> \o llm_init(configs, k + 1)
  ELSE llm_init(configs, k + 1)

is_enabled(provs) == provs # <<>>

\* what one provider call does: raises, returns None, or returns a string
\* (possibly the empty string)
ProviderOutcomes == {"raise", "None", "", "text"}

LlmOps == {"generate_text", "analyze_image", "analyze_video"}

NoResult == [val |-> "None", by |-> 0]

FbIdle == [mgr |-> "none", op |-> "none", phase |-> "idle", idx |-> 0,
           calls |-> <<>>, outs |-> <<>>, result |-> NoResult, before |-> "none",
           query |-> "none"]

\* how the call that `st` describes went, as seen by the next call: its first
\* provider failed and a later one gave the result, or anything else
call_summary(st) ==
  IF st.mgr = "llm" /\ st.phase = "returned" /\ Len(st.calls) >= 2
     /\ st.result # NoResult
  THEN "first_failed_later_won"
  ELSE "other"

\* a mutant of the entry: the loop starts after the provider that failed first
\* in the previous call
llm_enter_skip_failed(provs, op) ==
  IF provs = <<>>
  THEN [FbIdle EXCEPT !.mgr = "llm", !.op = op, !.phase = "returned"]
  ELSE [FbIdle EXCEPT !.mgr = "llm", !.op = op, !.phase = "running",
                      !.idx = IF call_summary(fbOp) = "first_failed_later_won"
                              THEN 2 ELSE 1]

\* entry of generate_text / analyze_image / analyze_video:
\* "if not self.providers: return None", else start the loop
llm_enter(provs, op) ==
  IF provs = <<>>
  THEN [FbIdle EXCEPT !.mgr = "llm", !.op = op, !.phase = "returned"]
  ELSE [FbIdle EXCEPT !.mgr = "llm", !.op = op, !.phase = "running", !.idx = 1]

\* a mutant of the loop body: a provider that returns None ends the fallback
llm_iteration_stop_on_none(provs, st, out) ==
  LET st2 == [st EXCEPT !.calls = Append(@, st.idx), !.outs = Append(@, out)]
  IN  IF out = "raise"
      THEN [st2 EXCEPT !.idx = @ + 1]
      ELSE [st2 EXCEPT !.phase = "returned",
                       !.result = [val |-> out, by |-> provs[st.idx]]]

\* a mutant of the loop body: an empty string is treated like None
llm_iteration_truthy(provs, st, out) ==
  LET st2 == [st EXCEPT !.calls = Append(@, st.idx), !.outs = Append(@, out)]
  IN  IF out \in {"raise", "None", ""}
      THEN [st2 EXCEPT !.idx = @ + 1]
      ELSE [st2 EXCEPT !.phase = "returned",
                       !.result = [val |-> out, by |-> provs[st.idx]]]

\* one iteration of "for provider_wrapper in self.providers": call the
\* provider; a result that is not None is returned at once, None and an
\* exception move on to the next provider
llm_iteration(provs, st, out) ==
  LET st2 == [st EXCEPT !.calls = Append(@, st.idx), !.outs = Append(@, out)]
  IN  IF out \in {"raise", "None"}
      THEN [st2 EXCEPT !.idx = @ + 1]
      ELSE [st2 EXCEPT !.phase = "returned",
                       !.result = [val |-> out, by |-> provs[st.idx]]]

\* the loop ran out of providers: log and "return None"
llm_exhausted(st) == [st EXCEPT !.phase = "returned", !.result = NoResult]

(***************************************************************************)
(* vector/fallback_manager.py : VectorStoreFallbackManager                 *)
(***************************************************************************)
Unset == "unset"

\* the class body defines __init__ twice; the second definition (a bare
\* "pass") is the one Python keeps, so construction never sets self.stores
vec_init(init_config) == Unset

\* one entry of the store configuration list, by what the first definition
\* of __init__ does with it: a 'local' or 'remote' entry with a config, an
\* entry with 'enabled': False (type 'remote', config present), an entry
\* missing 'type' or 'config', an unknown type, a constructor that raises
StoreConfigKinds == {"local", "remote", "disabled", "invalid", "unknown_type", "ctor_raises"}

\* the first definition of __init__ (shadowed by the second): one store per
\* entry that has a type and a config, a known type and a constructor that
\* returns, in configuration order; 'enabled' is not read
RECURSIVE vec_init_first(_, _)
vec_init_first(store_configs, k) ==
  IF k > Len(store_configs) THEN <<>>
  ELSE IF store_configs[k] \in {"local", "remote"}
  THEN <<store_configs[k]>> \o vec_init_first(store_configs, k + 1)
  ELSE IF store_configs[k] = "disabled"
  THEN <<"remote">> \o vec_init_first(store_configs, k + 1)
  ELSE vec_init_first(store_configs, k + 1)

VecOps == {"add_documents", "search", "get_document_by_id", "delete_documents"}

\* what one store call does, per operation
VecOutcomes(op) ==
  IF op = "delete_documents" THEN {"raise", "True", "False"}
  ELSE IF op = "get_document_by_id" THEN {"raise", "None", "doc"}
  ELSE {"raise", "None", "[]", "rows"}

\* the value returned when the loop over self.stores finds nothing
VecSentinel(op) ==
  IF op = "delete_documents" THEN "False"
  ELSE IF op = "get_document_by_id" THEN "None"
  ELSE "[]"

\* the test that ends the loop: "is not None" for add_documents, search and
\* get_document_by_id, truthiness for delete_documents
vec_accepts(op, out) ==
  IF op = "delete_documents" THEN out = "True" ELSE out \notin {"raise", "None"}

\* search only: a 'local' store is skipped without a call when the query is
\* not a string
vec_skips(op, storeType, queryIsText) ==
  op = "search" /\ storeType = "local" /\ ~queryIsText

RECURSIVE vec_loop(_, _, _, _, _)
vec_loop(sts, beh, k, op, queryIsText) ==
  IF k > Len(sts)
  THEN [raised |-> FALSE, val |-> VecSentinel(op), by |-> 0, calls |-> <<>>]
  ELSE IF vec_skips(op, sts[k], queryIsText)
  THEN vec_loop(sts, beh, k + 1, op, queryIsText)
  ELSE IF vec_accepts(op, beh[k])
  THEN [raised |-> FALSE, val |-> beh[k], by |-> k, calls |-> <<k>>]
  ELSE LET rest == vec_loop(sts, beh, k + 1, op, queryIsText)
       IN  [rest EXCEPT !.calls = <<k>> \o @]

\* add_documents / search / get_document_by_id / delete_documents: iterating
\* self.stores raises AttributeError when the attribute was never set
vec_call(sts, beh, op, queryIsText) ==
  IF sts = Unset
  THEN [raised |-> TRUE, val |-> "AttributeError", by |-> 0, calls |-> <<>>]
  ELSE vec_loop(sts, beh, 1, op, queryIsText)

(***************************************************************************)
(* media_tracker.py                                                        *)
(***************************************************************************)
is_media_used_never(filename, used) == FALSE

\* is_media_used: filename in used_media_set
is_media_used(filename, used) == filename \in used

\* mark_media_as_used: append the filename to the log; an IOError is logged
\* and swallowed, the call returns normally either way
MarkOutcomes == {"ok", "io_error"}

mark_media_as_used(log, filename, io) ==
  IF io = "ok" THEN Append(log, filename) ELSE log

(***************************************************************************)
(* scheduler.py : Scheduler.run_schedule_cycle                             *)
(***************************************************************************)
\* files that can sit in the media directory: images 1..NumFiles and one
\* file (0) whose suffix is not an image suffix
ImageFiles == 1..NumFiles
DirFiles == 0..NumFiles

\* p.suffix.lower() in ('.jpg', '.jpeg', '.png', '.gif')
has_image_suffix(f) == f \in ImageFiles

\* str(p) for p in media_dir.iterdir(), and os.path.basename of it
media_path(f) == <<"media_dir", f>>
basename(path) == path[2]

\* in halves: random.random() is 0.0 or 0.5 (a value in [0, 1)), and
\* media_tweet_probability is 0.0, 0.5 or 1.0
RandomDraws == {0, 1}
Probabilities == {0, 1, 2}

media_eligible_cap_inclusive(cfg, media_scheduled, r) ==
  media_scheduled <= cfg.max_scheduled_media_tweets /\ r < cfg.media_tweet_probability

media_eligible_cap_off_by_one(cfg, media_scheduled, r) ==
  media_scheduled + 1 < cfg.max_scheduled_media_tweets /\ r < cfg.media_tweet_probability

media_eligible_inclusive(cfg, media_scheduled, r) ==
  media_scheduled < cfg.max_scheduled_media_tweets /\ r <= cfg.media_tweet_probability

\* media_scheduled_this_cycle < max_scheduled_media_tweets and
\* random.random() < media_tweet_probability
media_eligible(cfg, media_scheduled, r) ==
  media_scheduled < cfg.max_scheduled_media_tweets /\ r < cfg.media_tweet_probability

\* a mutant of the filter: the used set is not consulted
unused_media_files_ignore_used(cfg, dir, used) ==
  IF cfg.dir_exists THEN {media_path(f) : f \in {g \in dir : has_image_suffix(g)}} ELSE {}

\* unused_media_files: the image files of the directory not in the used set
unused_media_files(cfg, dir, used) ==
  IF cfg.dir_exists
  THEN {media_path(f) : f \in {g \in dir : has_image_suffix(g) /\ ~is_media_used(g, used)}}
  ELSE {}

\* what a call of llm.analyze_image / llm.generate_text evaluates to:
\* it raises, or gives None, "", a text, or (a coroutine function called
\* without await) a coroutine object
Truthy_not_None(text_content) == text_content # "None"

Truthy(text_content) == text_content \in {"text", "coroutine"}

slot_raises_uncaught(text_content, schedOut) ==
  text_content = "coroutine" \/ schedOut = "raise"

\* an exception leaves the slot: the schedule call is inside a try, but the
\* log line after it and the handler's own log line both evaluate
\* text_content[:50], which raises TypeError on a coroutine object
slot_raises(text_content, schedOut) == text_content = "coroutine"

\* selected_media_path = None, media_path = None
NoPath == <<>>

NoSlot == [eligible |-> FALSE, is_media_attempt |-> FALSE, selected |-> NoPath,
           selWasUsed |-> FALSE, llm |-> "none", llmOut |-> "none",
           schedCalled |-> FALSE, schedMedia |-> NoPath, schedOut |-> "none",
           marked |-> {}, listOut |-> "none", markOut |-> "none", posted |-> "none",
           search |-> "none"]

\* media_dir.iterdir(), reached by a media-eligible slot whose directory
\* exists: it gives the entries or raises OSError
ListOutcomes == {"ok", "raise"}

ListOutcomesFor(cfg, media_scheduled, r) ==
  IF media_eligible(cfg, media_scheduled, r) /\ cfg.dir_exists
  THEN ListOutcomes ELSE {"none"}

\* one iteration of the slot loop, after the max_scheduled_tweets_total check
schedule_slot(cfg, dir, used, log, scheduled, media_scheduled, r, listOut, pick, llmOut, schedOut, markIo) ==
  LET eligible == media_eligible(cfg, media_scheduled, r)
      unused == unused_media_files(cfg, dir, used)
      is_media_attempt == eligible /\ unused # {}
      selected_media_path == IF is_media_attempt THEN pick ELSE NoPath
      llm == IF is_media_attempt THEN "analyze_image" ELSE "generate_text"
      text_content == IF llmOut = "raise" THEN "None" ELSE llmOut
      current_media_to_schedule ==
        IF is_media_attempt /\ Truthy(text_content) THEN selected_media_path ELSE NoPath
      slot0 == [NoSlot EXCEPT !.eligible = eligible,
                              !.is_media_attempt = is_media_attempt,
                              !.selected = selected_media_path,
                              !.selWasUsed = is_media_attempt /\ basename(pick) \in used,
                              !.llm = llm, !.llmOut = llmOut, !.listOut = listOut]
      same == [used |-> used, log |-> log, scheduled |-> scheduled,
               media_scheduled |-> media_scheduled, slot |-> slot0, crashed |-> FALSE]
      called == [slot0 EXCEPT !.schedCalled = TRUE,
                              !.schedMedia = current_media_to_schedule,
                              !.schedOut = schedOut]
  IN  IF listOut = "raise"
      THEN \* the listing is outside every try of the function
           [same EXCEPT !.slot = [NoSlot EXCEPT !.eligible = TRUE, !.listOut = listOut],
                        !.crashed = TRUE]
      ELSE IF ~Truthy(text_content) THEN same
      ELSE IF slot_raises(text_content, schedOut)
      THEN [same EXCEPT !.slot = called, !.crashed = TRUE]
      ELSE IF schedOut = "raise" THEN [same EXCEPT !.slot = called]
      ELSE IF current_media_to_schedule = NoPath
      THEN [same EXCEPT !.slot = called, !.scheduled = scheduled + 1]
      ELSE LET media_filename == basename(current_media_to_schedule)
           IN  [used |-> used \cup {media_filename},
                log |-> mark_media_as_used(log, media_filename, markIo),
                scheduled |-> scheduled + 1,
                media_scheduled |-> media_scheduled + 1,
                slot |-> [called EXCEPT !.marked = {media_filename}, !.markOut = markIo],
                crashed |-> FALSE]

\* the outcomes of the schedule call of a slot: drawn only when it is made
SchedOutcomes == {"ok", "raise"}

\* TwitterClient.schedule_tweet_from_agent, when it returns: what became of
\* the post.  upload is client.upload_media for the attached file, api is
\* client.schedule_tweet; a failure of either is caught and logged inside the
\* function.  Without media the name media_ids_list is never bound, so the
\* reference to it in the schedule_tweet call raises inside the try (and a
\* dry run returns before scheduling anything): no post is scheduled.
ClientStepOutcomes == {"ok", "fails"}

schedule_tweet_from_agent(path, upload, api) ==
  IF path = NoPath THEN "not_scheduled"
  ELSE IF api = "fails" THEN "not_scheduled"
  ELSE IF upload = "fails" THEN "scheduled_without_media"
  ELSE "scheduled"

\* what a returned schedule call can have done with the post
PostOutcomesFor(sl) ==
  IF sl.schedCalled /\ sl.schedOut = "ok"
  THEN {schedule_tweet_from_agent(sl.schedMedia, upload, api) :
          upload \in ClientStepOutcomes, api \in ClientStepOutcomes}
  ELSE {"none"}

SchedOutcomesFor(listOut, llmOut) ==
  IF listOut # "raise" /\ Truthy(llmOut) THEN SchedOutcomes ELSE {"ok"}

\* the outcomes of the append to the used-media log: drawn only when a slot marks
MarkOutcomesFor(cfg, dir, used, log, scheduled, media_scheduled, r, listOut, pick, llmOut, schedOut) ==
  IF schedule_slot(cfg, dir, used, log, scheduled, media_scheduled,
                   r, listOut, pick, llmOut, schedOut, "ok").used = used
  THEN {"ok"} ELSE MarkOutcomes

\* vector_store.search at the start of a cycle
SearchOutcomes == {"no_manager", "raise", "[]", "docs"}

\* a mutant of the context search: the exception of the search is not caught
context_search_propagates(search) ==
  [docs |-> search = "docs", raised |-> search = "raise"]

\* the context search of a cycle: "if self.vector_store:" and the try around
\* the search; docs tells whether context documents are kept for the prompts,
\* raised whether an exception leaves the cycle
context_search(search) == [docs |-> search = "docs", raised |-> FALSE]

\* what a cycle did so far: the unused images it started with, the schedule
\* calls made, those that returned (all, and with media), and the value returned
NoStats == [unusedAtStart |-> {}, schedCalls |-> 0, okPosts |-> 0, okMediaPosts |-> 0,
            returned |-> <<>>]

\* a media cap above the total behaves like a cap equal to the total
Configs ==
  {c \in [max_scheduled_tweets_total : 0..MaxTotal,
          max_scheduled_media_tweets : 0..MaxTotal,
          media_tweet_probability : Probabilities,
          dir_exists : BOOLEAN] :
     c.max_scheduled_media_tweets <= c.max_scheduled_tweets_total}

(***************************************************************************)
(* client/twitter_client.py : TwitterClient.login                          *)
(***************************************************************************)
\* what login reads of the configuration: dry_run, whether the auth token is
\* a non-empty string, whether the cookie file is named and exists, whether
\* username and password are non-empty
AuthConfigs ==
  [dry_run : BOOLEAN, twitter_auth_token : BOOLEAN, cookie_file_exists : BOOLEAN,
   twitter_username : BOOLEAN, twitter_password : BOOLEAN]

\* the three authentication blocks of login, in program order
AuthMethods == <<"auth_token", "cookie_file", "credentials">>

\* a mutant of the guard of the third block: the password is not required
configured_username_only(cfg, m) ==
  CASE m = "auth_token" -> cfg.twitter_auth_token
    [] m = "cookie_file" -> cfg.cookie_file_exists
    [] m = "credentials" -> cfg.twitter_username

\* the guard of each block: "if auth_token:", "if cookies_file and
\* os.path.exists(cookies_file):", "if username and password:"
configured(cfg, m) ==
  CASE m = "auth_token" -> cfg.twitter_auth_token
    [] m = "cookie_file" -> cfg.cookie_file_exists
    [] m = "credentials" -> cfg.twitter_username /\ cfg.twitter_password

\* what the body of a block does: it reaches "self.logged_in = True; return
\* True", or an exception is caught and logged; the cookie block can also find
\* no usable cookie in the file and fall through without an exception
AttemptOutcomes(m) ==
  IF m = "cookie_file" THEN {"ok", "raise", "no_valid_cookies"} ELSE {"ok", "raise"}

\* _load_proxy, called when self.client is None: it returns, raises
\* RuntimeError (no proxy support, no proxy configured, unusable proxy string)
\* or raises something else (the ImportError it re-raises)
LoadOutcomes == {"ok", "RuntimeError", "other_error"}

LoadOutcomesFor(client) == IF client = "None" THEN LoadOutcomes ELSE {"none"}

NoLogin == [load |-> "none", attempts |-> <<>>, ret |-> "none"]

(***************************************************************************)
(* The state of each component while another specification runs           *)
(***************************************************************************)
IdleDispatch ==
  /\ data = <<>>
  /\ file = <<>>
  /\ lastOp = NoOp
  /\ okCalls = [i \in Ids |-> 0]
  /\ allCalls = [i \in Ids |-> 0]
  /\ addedOK = {}
  /\ everRemoved = FALSE
  /\ opCount = 0

IdleFallback ==
  /\ llmConfigs = <<>>
  /\ providers = <<>>
  /\ storeConfigs = <<>>
  /\ stores = Unset
  /\ fbOp = FbIdle

IdleSched ==
  /\ config = [max_scheduled_tweets_total |-> 0, max_scheduled_media_tweets |-> 0,
               media_tweet_probability |-> 0, dir_exists |-> FALSE]
  /\ mediaDir = {}
  /\ used_media_set = {}
  /\ usedLog = <<>>
  /\ schedPc = "idle"
  /\ slotIdx = 0
  /\ scheduled_in_this_cycle = 0
  /\ media_scheduled_this_cycle = 0
  /\ context = FALSE
  /\ lastSlot = NoSlot
  /\ cycleStats = NoStats
  /\ mediaPosts = [f \in ImageFiles |-> 0]
  /\ cyclesRun = 0

IdleLoop ==
  /\ runCfg = [enable_action_processing |-> FALSE,
               enable_twitter_post_generation |-> FALSE,
               post_immediately |-> FALSE,
               action_interval |-> 0,
               post_interval_min |-> 0,
               post_interval_max |-> 0]
  /\ llmKind = "none"
  /\ max_cycles = <<>>
  /\ loopPc = "new"
  /\ cycles = 0
  /\ now = 0
  /\ next_action = 0
  /\ next_post = 0
  /\ actionPasses = 0
  /\ postStarts = 0
  /\ postDone = 0
  /\ iterTasks = <<>>

IdleOnce ==
  /\ max_actions_processing = 0
  /\ polled = <<>>
  /\ timeline = <<>>
  /\ oncePc = "new"
  /\ tweetIdx = 0
  /\ dispatchCalls = 0
  /\ llmCalls = 0
  /\ ledgerAtStart = <<>>

IdleLogin ==
  /\ authCfg = [dry_run |-> FALSE, twitter_auth_token |-> FALSE,
                cookie_file_exists |-> FALSE, twitter_username |-> FALSE,
                twitter_password |-> FALSE]
  /\ twClient = "None"
  /\ logged_in = FALSE
  /\ loginPc = "idle"
  /\ methodIdx = 0
  /\ lastLogin = NoLogin
  /\ loginCalls = 0

(***************************************************************************)
(* SpecFallback : operations on the two fallback managers                  *)
(***************************************************************************)
FbAtRest == fbOp.phase \in {"idle", "returned", "raised"}

LlmStart ==
  /\ FbAtRest
  /\ \E op \in LlmOps :
       fbOp' = [llm_enter(providers, op) EXCEPT !.before = call_summary(fbOp)]
  /\ UNCHANGED <<llmConfigs, providers, storeConfigs, stores>>

LlmTryProvider ==
  /\ fbOp.mgr = "llm"
  /\ fbOp.phase = "running"
  /\ fbOp.idx <= Len(providers)
  /\ \E out \in ProviderOutcomes : fbOp' = llm_iteration(providers, fbOp, out)
  /\ UNCHANGED <<llmConfigs, providers, storeConfigs, stores>>

LlmExhausted ==
  /\ fbOp.mgr = "llm"
  /\ fbOp.phase = "running"
  /\ fbOp.idx > Len(providers)
  /\ fbOp' = llm_exhausted(fbOp)
  /\ UNCHANGED <<llmConfigs, providers, storeConfigs, stores>>

VecCall ==
  /\ FbAtRest
  /\ \E op \in VecOps, queryIsText \in BOOLEAN :
       \E beh \in IF stores = Unset THEN {<<>>}
                  ELSE [1..Len(stores) -> VecOutcomes(op)] :
         LET r == vec_call(stores, beh, op, queryIsText)
         IN  fbOp' = [mgr |-> "vector", op |-> op,
                      phase |-> IF r.raised THEN "raised" ELSE "returned",
                      idx |-> 0, calls |-> r.calls, outs |-> beh,
                      result |-> [val |-> r.val, by |-> r.by],
                      before |-> call_summary(fbOp),
                      query |-> IF op # "search" THEN "none"
                                ELSE IF queryIsText THEN "text" ELSE "embedding"]
  /\ UNCHANGED <<llmConfigs, providers, storeConfigs, stores>>

InitFallback ==
  /\ IdleLogin
  /\ IdleOnce
  /\ IdleDispatch
  /\ IdleSched
  /\ IdleLoop
  /\ llmConfigs \in SeqsUpTo(ConfigKinds, MaxConfigs)
  /\ providers = llm_init(llmConfigs, 1)
  /\ storeConfigs = <<>>
  /\ stores = vec_init(storeConfigs)
  /\ fbOp = FbIdle

NextFallback ==
  /\ LlmStart \/ LlmTryProvider \/ LlmExhausted \/ VecCall
  /\ UNCHANGED <<storeVars, schedVars, loopVars, onceVars, loginVars>>

SpecFallback == InitFallback /\ [][NextFallback]_vars

(***************************************************************************)
(* SpecVector : operations on a VectorStoreFallbackManager.  The manager   *)
(* starts as the class builds it (the second __init__: no stores           *)
(* attribute) or holding the list the first __init__ is written to build,  *)
(* which is the list the operations are written against.                   *)
(***************************************************************************)
InitVector ==
  /\ IdleLogin
  /\ IdleOnce
  /\ IdleDispatch
  /\ IdleSched
  /\ IdleLoop
  /\ llmConfigs = <<>>
  /\ providers = llm_init(llmConfigs, 1)
  /\ storeConfigs \in SeqsUpTo(StoreConfigKinds, MaxStores)
  /\ stores \in {vec_init(storeConfigs), vec_init_first(storeConfigs, 1)}
  /\ fbOp = FbIdle

NextVector ==
  /\ VecCall
  /\ UNCHANGED <<storeVars, schedVars, loopVars, onceVars, loginVars>>

SpecVector == InitVector /\ [][NextVector]_vars

(***************************************************************************)
(* SpecDispatch : operations on one ActionManager and its store            *)
(***************************************************************************)
\* ledgers a store can start from: a fresh file, or one left by an earlier run
InitLedgers == {<<>>} \cup {<<i>> : i \in Ids}

InitDispatch ==
  /\ IdleLogin
  /\ IdleOnce
  /\ IdleFallback
  /\ IdleSched
  /\ IdleLoop
  /\ data \in InitLedgers
  /\ file = data
  /\ lastOp = NoOp
  /\ okCalls = [i \in Ids |-> 0]
  /\ allCalls = [i \in Ids |-> 0]
  /\ addedOK = {}
  /\ everRemoved = FALSE
  /\ opCount = 0

Dispatch ==
  /\ opCount < MaxOps
  /\ \E action \in ActionKinds, id \in Ids, conversation \in BOOLEAN :
     \E tw \in ClientOutcomesFor(data, file, action, id, conversation) :
     \E io \in SaveOutcomesFor(data, file, action, id, conversation, tw) :
       LET r == dispatch(data, file, action, id, conversation, tw, io)
           counted == r.called # "none" /\ ~conversation
       IN  /\ data' = r.data
           /\ file' = r.file
           /\ lastOp' = [op |-> "dispatch", id |-> id, action |-> action,
                         conversation |-> conversation, ret |-> r.ret,
                         called |-> r.called, tw |-> r.tw,
                         inLedgerBefore |-> has_interacted(data, id),
                         okBefore |-> okCalls[id],
                         noConvOnly |-> lastOp.noConvOnly /\ ~conversation]
           /\ allCalls' = IF counted THEN [allCalls EXCEPT ![id] = @ + 1] ELSE allCalls
           /\ okCalls' = IF counted /\ r.tw # "raise"
                         THEN [okCalls EXCEPT ![id] = @ + 1] ELSE okCalls
           /\ addedOK' = IF r.ret = "True" THEN addedOK \cup {id} ELSE addedOK
  /\ opCount' = opCount + 1
  /\ UNCHANGED everRemoved

AddInteraction ==
  /\ opCount < MaxOps
  /\ \E id \in Ids, io \in SaveOutcomes :
       LET r == add_interaction(data, file, id, io)
       IN  /\ data' = r.data
           /\ file' = r.file
           /\ lastOp' = [NoOp EXCEPT !.op = "add_interaction", !.id = id,
                           !.ret = IF r.raised THEN "raised" ELSE "None",
                           !.inLedgerBefore = has_interacted(data, id),
                           !.okBefore = okCalls[id],
                           !.noConvOnly = lastOp.noConvOnly]
           /\ addedOK' = IF r.raised THEN addedOK ELSE addedOK \cup {id}
  /\ opCount' = opCount + 1
  /\ UNCHANGED <<okCalls, allCalls, everRemoved>>

RemoveInteraction ==
  /\ opCount < MaxOps
  /\ \E id \in Ids, io \in SaveOutcomes :
       LET r == remove_interaction(data, file, id, io)
       IN  /\ data' = r.data
           /\ file' = r.file
           /\ lastOp' = [NoOp EXCEPT !.op = "remove_interaction", !.id = id,
                           !.ret = IF r.raised THEN "raised" ELSE "None",
                           !.inLedgerBefore = has_interacted(data, id),
                           !.okBefore = okCalls[id],
                           !.noConvOnly = lastOp.noConvOnly]
           /\ addedOK' = addedOK \ {id}
  /\ opCount' = opCount + 1
  /\ everRemoved' = TRUE
  /\ UNCHANGED <<okCalls, allCalls>>

Clear ==
  /\ opCount < MaxOps
  /\ \E io \in SaveOutcomes :
       LET r == clear(data, file, io)
       IN  /\ data' = r.data
           /\ file' = r.file
           /\ lastOp' = [NoOp EXCEPT !.op = "clear",
                           !.ret = IF r.raised THEN "raised" ELSE "None",
                           !.noConvOnly = lastOp.noConvOnly]
  /\ addedOK' = {}
  /\ opCount' = opCount + 1
  /\ everRemoved' = TRUE
  /\ UNCHANGED <<okCalls, allCalls>>

\* a direct call of ActionManager.should_interact
ShouldInteract ==
  /\ opCount < MaxOps
  /\ \E id \in Ids, conversation \in BOOLEAN :
       lastOp' = [NoOp EXCEPT !.op = "should_interact", !.id = id,
                    !.conversation = conversation,
                    !.ret = IF should_interact(data, id, conversation)
                            THEN "True" ELSE "False",
                    !.inLedgerBefore = has_interacted(data, id),
                    !.okBefore = okCalls[id],
                    !.noConvOnly = lastOp.noConvOnly]
  /\ opCount' = opCount + 1
  /\ UNCHANGED <<data, file, okCalls, allCalls, addedOK, everRemoved>>

NextDispatch ==
  /\ Dispatch \/ AddInteraction \/ RemoveInteraction \/ Clear \/ ShouldInteract
  /\ UNCHANGED <<fbVars, schedVars, loopVars, onceVars, loginVars>>

SpecDispatch == InitDispatch /\ [][NextDispatch]_vars

(***************************************************************************)
(* SpecSched : scheduling cycles of one Scheduler                          *)
(***************************************************************************)
InitSched ==
  /\ IdleLogin
  /\ IdleOnce
  /\ IdleDispatch
  /\ IdleFallback
  /\ IdleLoop
  /\ config \in Configs
  /\ mediaDir \in IF config.dir_exists THEN {0..n : n \in 0..NumFiles} ELSE {{}}
  /\ used_media_set \in {1..k : k \in 0..Cardinality(mediaDir \cap ImageFiles)}
  /\ usedLog = <<>>
  /\ schedPc = "idle"
  /\ slotIdx = 0
  /\ scheduled_in_this_cycle = 0
  /\ media_scheduled_this_cycle = 0
  /\ context = FALSE
  /\ lastSlot = NoSlot
  /\ cycleStats = NoStats
  /\ mediaPosts = [f \in ImageFiles |-> 0]
  /\ cyclesRun = 0

\* run_schedule_cycle up to the slot loop: counters reset, context search
StartCycle ==
  /\ schedPc \in {"idle", "done", "raised"}
  /\ cyclesRun < MaxCycles
  /\ \E search \in SearchOutcomes :
       /\ context' = context_search(search).docs
       /\ schedPc' = IF context_search(search).raised THEN "raised" ELSE "slots"
       /\ lastSlot' = [NoSlot EXCEPT !.search = search]
  /\ scheduled_in_this_cycle' = 0
  /\ media_scheduled_this_cycle' = 0
  /\ slotIdx' = 0
  /\ cycleStats' = [NoStats EXCEPT !.unusedAtStart =
                       {basename(q) : q \in unused_media_files(config, mediaDir, used_media_set)}]
  /\ cyclesRun' = cyclesRun + 1
  /\ UNCHANGED <<config, mediaDir, used_media_set, usedLog, mediaPosts>>

\* one iteration of "for _ in range(max_scheduled_tweets_total)"
Slot ==
  /\ schedPc = "slots"
  /\ slotIdx < config.max_scheduled_tweets_total
  /\ scheduled_in_this_cycle < config.max_scheduled_tweets_total
  /\ \E r \in RandomDraws, llmOut \in {"raise", "None", "", "text"} :
     \E listOut \in ListOutcomesFor(config, media_scheduled_this_cycle, r) :
     \E schedOut \in SchedOutcomesFor(listOut, llmOut) :
       LET unused == unused_media_files(config, mediaDir, used_media_set)
       IN  \E pick \in IF unused = {} THEN {media_path(0)} ELSE unused :
           \E markIo \in MarkOutcomesFor(config, mediaDir, used_media_set, usedLog,
                                         scheduled_in_this_cycle, media_scheduled_this_cycle,
                                         r, listOut, pick, llmOut, schedOut) :
             LET res == schedule_slot(config, mediaDir, used_media_set, usedLog,
                                      scheduled_in_this_cycle, media_scheduled_this_cycle,
                                      r, listOut, pick, llmOut, schedOut, markIo)
                 sl == res.slot
             IN  /\ used_media_set' = res.used
                 /\ usedLog' = res.log
                 /\ scheduled_in_this_cycle' = res.scheduled
                 /\ media_scheduled_this_cycle' = res.media_scheduled
                 /\ \E post \in PostOutcomesFor(sl) :
                      lastSlot' = [sl EXCEPT !.posted = post]
                 /\ cycleStats' =
                      [cycleStats EXCEPT
                         !.schedCalls = @ + (IF sl.schedCalled THEN 1 ELSE 0),
                         !.okPosts = @ + (IF sl.schedCalled /\ sl.schedOut = "ok"
                                          THEN 1 ELSE 0),
                         !.okMediaPosts = @ + (IF sl.schedCalled /\ sl.schedOut = "ok"
                                                  /\ sl.schedMedia # NoPath
                                               THEN 1 ELSE 0)]
                 /\ mediaPosts' =
                      IF sl.schedCalled /\ sl.schedOut = "ok" /\ sl.schedMedia # NoPath
                      THEN [mediaPosts EXCEPT ![basename(sl.schedMedia)] = @ + 1]
                      ELSE mediaPosts
                 /\ schedPc' = IF res.crashed THEN "raised" ELSE "slots"
  /\ slotIdx' = slotIdx + 1
  /\ UNCHANGED <<config, mediaDir, context, cyclesRun>>

\* the loop ends (range exhausted, or the break on the total) and the cycle
\* returns scheduled_in_this_cycle
EndCycle ==
  /\ schedPc = "slots"
  /\ \/ slotIdx >= config.max_scheduled_tweets_total
     \/ scheduled_in_this_cycle >= config.max_scheduled_tweets_total
  /\ schedPc' = "done"
  /\ cycleStats' = [cycleStats EXCEPT !.returned = <<scheduled_in_this_cycle>>]
  /\ UNCHANGED <<config, mediaDir, used_media_set, usedLog, slotIdx,
                 scheduled_in_this_cycle, media_scheduled_this_cycle, context,
                 lastSlot, mediaPosts, cyclesRun>>

NextSched ==
  /\ StartCycle \/ Slot \/ EndCycle
  /\ UNCHANGED <<storeVars, fbVars, loopVars, onceVars, loginVars>>

SpecSched == InitSched /\ [][NextSched]_vars

(***************************************************************************)
(* SpecLoop : XVioletAgent.run                                             *)
(***************************************************************************)
\* time.time() read again: the clock does not go back
Clock(t) == {t, t + 1}

Seconds == {0, 1}

\* "now >= next_action", "now >= next_post"
due_strict(t, next) == t > next

\* a mutant of the comparison: a block runs in every iteration
due_always(t, next) == TRUE

due(t, next) == t >= next

\* "self.config.enable_action_processing and now >= next_action"
action_block_due(cfg, t, next) == cfg.enable_action_processing /\ due(t, next)

\* a mutant of the guard of the post block: the flag is not read
post_block_due_ignore_flag(cfg, t, next) == due(t, next)

\* "self.config.enable_twitter_post_generation and now >= next_post"
post_block_due(cfg, t, next) == cfg.enable_twitter_post_generation /\ due(t, next)

tasks_begun_post_first(action_due, post_due) ==
  (IF post_due THEN <<"post">> ELSE <<>>) \o (IF action_due THEN <<"action">> ELSE <<>>)

\* the two blocks of the loop body in program order: the action-processing
\* block, whose run_until_complete(run_once()) returns before the next
\* statement, then the post-generation block
tasks_begun(action_due, post_due) ==
  (IF action_due THEN <<"action">> ELSE <<>>) \o (IF post_due THEN <<"post">> ELSE <<>>)

\* a mutant of the draw: the lower end of the interval is ignored
uniform_from_zero(lo, hi) == 0..hi

\* random.uniform(post_interval_min, post_interval_max)
uniform(lo, hi) == lo..hi

\* what self.llm.analyze_image / generate_text give the loop, which does not await them
LlmResults(kind) ==
  CASE kind = "async" -> {"coroutine"}
    [] kind = "sync" -> {"raise", "None", "", "text"}
    [] kind = "none" -> {"raise"}

RunConfigs ==
  {c \in [enable_action_processing : BOOLEAN,
          enable_twitter_post_generation : BOOLEAN,
          post_immediately : BOOLEAN,
          action_interval : Seconds,
          post_interval_min : Seconds,
          post_interval_max : Seconds] :
     c.post_interval_min <= c.post_interval_max}

\* the slot loop is modelled in full under SpecSched; here one slot is enough
LoopConfigs ==
  {c \in Configs : c.max_scheduled_tweets_total <= 1 /\ c.dir_exists
                   /\ c.media_tweet_probability \in {0, 2}}

InitLoop ==
  /\ IdleLogin
  /\ IdleOnce
  /\ IdleDispatch
  /\ IdleFallback
  /\ config \in LoopConfigs
  /\ mediaDir = {0, 1}
  /\ used_media_set = {}
  /\ usedLog = <<>>
  /\ schedPc = "idle"
  /\ slotIdx = 0
  /\ scheduled_in_this_cycle = 0
  /\ media_scheduled_this_cycle = 0
  /\ context = FALSE
  /\ lastSlot = NoSlot
  /\ cycleStats = NoStats
  /\ mediaPosts = [f \in ImageFiles |-> 0]
  /\ cyclesRun = 0
  /\ runCfg \in RunConfigs
  /\ llmKind \in {"async", "sync", "none"}
  /\ max_cycles \in {<<>>} \cup {<<n>> : n \in 1..MaxCap}
  /\ loopPc = "new"
  /\ cycles = 0
  /\ now = 0
  /\ next_action = 0
  /\ next_post = 0
  /\ actionPasses = 0
  /\ postStarts = 0
  /\ postDone = 0
  /\ iterTasks = <<>>

\* run, up to "while True"
RunStart ==
  /\ loopPc = "new"
  /\ cycles' = 0
  /\ next_action' = now
  /\ IF runCfg.post_immediately
     THEN /\ next_post' = now
          /\ runCfg' = [runCfg EXCEPT !.post_immediately = FALSE]
     ELSE /\ \E d \in uniform(runCfg.post_interval_min, runCfg.post_interval_max) :
               next_post' = now + d
          /\ UNCHANGED runCfg
  /\ loopPc' = "top"
  /\ UNCHANGED <<llmKind, max_cycles, now, actionPasses, postStarts, postDone, iterTasks,
                 schedVars>>

\* one pass of "while True" from the clock read to the slot loop, or to the
\* sleep when no post-generation cycle is due
LoopTop ==
  /\ loopPc = "top"
  /\ cycles <= MaxCap
  /\ \E t \in Clock(now), search \in SearchOutcomes :
       /\ now' = t
       /\ cycles' = cycles + 1
       /\ iterTasks' =
            IF max_cycles # <<>> /\ cycles + 1 >= max_cycles[1] THEN <<>>
            ELSE tasks_begun(action_block_due(runCfg, t, next_action),
                             post_block_due(runCfg, t, next_post))
       /\ IF max_cycles # <<>> /\ cycles + 1 >= max_cycles[1]
          THEN /\ loopPc' = "exited"
               /\ UNCHANGED <<next_action, actionPasses, postStarts, context, slotIdx,
                              scheduled_in_this_cycle, media_scheduled_this_cycle>>
          ELSE /\ IF action_block_due(runCfg, t, next_action)
                  THEN /\ actionPasses' = actionPasses + 1
                       /\ next_action' = t + runCfg.action_interval
                  ELSE UNCHANGED <<actionPasses, next_action>>
               /\ IF post_block_due(runCfg, t, next_post)
                  THEN /\ postStarts' = postStarts + 1
                       /\ context' = context_search(search).docs
                       /\ slotIdx' = 0
                       /\ scheduled_in_this_cycle' = 0
                       /\ media_scheduled_this_cycle' = 0
                       /\ loopPc' = IF context_search(search).raised
                                    THEN "raised" ELSE "slots"
                  ELSE /\ loopPc' = "top"
                       /\ UNCHANGED <<postStarts, context, slotIdx,
                                      scheduled_in_this_cycle, media_scheduled_this_cycle>>
  /\ UNCHANGED <<runCfg, llmKind, max_cycles, next_post, postDone, config, mediaDir,
                 used_media_set, usedLog, schedPc, lastSlot, cycleStats, mediaPosts,
                 cyclesRun>>

\* one iteration of the slot loop of run
LoopSlot ==
  /\ loopPc = "slots"
  /\ slotIdx < config.max_scheduled_tweets_total
  /\ scheduled_in_this_cycle < config.max_scheduled_tweets_total
  /\ \E r \in RandomDraws, llmOut \in LlmResults(llmKind) :
     \E listOut \in ListOutcomesFor(config, media_scheduled_this_cycle, r) :
     \E schedOut \in SchedOutcomesFor(listOut, llmOut) :
       LET unused == unused_media_files(config, mediaDir, used_media_set)
       IN  \E pick \in IF unused = {} THEN {media_path(0)} ELSE unused :
           \E markIo \in MarkOutcomesFor(config, mediaDir, used_media_set, usedLog,
                                         scheduled_in_this_cycle, media_scheduled_this_cycle,
                                         r, listOut, pick, llmOut, schedOut) :
             LET res == schedule_slot(config, mediaDir, used_media_set, usedLog,
                                      scheduled_in_this_cycle, media_scheduled_this_cycle,
                                      r, listOut, pick, llmOut, schedOut, markIo)
             IN  /\ used_media_set' = res.used
                 /\ usedLog' = res.log
                 /\ scheduled_in_this_cycle' = res.scheduled
                 /\ media_scheduled_this_cycle' = res.media_scheduled
                 /\ loopPc' = IF res.crashed THEN "raised" ELSE "slots"
  /\ slotIdx' = slotIdx + 1
  /\ UNCHANGED <<config, mediaDir, schedPc, context, lastSlot, cycleStats, mediaPosts,
                 cyclesRun, runCfg, llmKind, max_cycles, cycles, now, next_action,
                 next_post, actionPasses, postStarts, postDone, iterTasks>>

\* the slot loop is over: next_post is set and the pass sleeps
LoopEndPost ==
  /\ loopPc = "slots"
  /\ \/ slotIdx >= config.max_scheduled_tweets_total
     \/ scheduled_in_this_cycle >= config.max_scheduled_tweets_total
  /\ \E d \in uniform(runCfg.post_interval_min, runCfg.post_interval_max) :
       next_post' = now + d
  /\ postDone' = postDone + 1
  /\ loopPc' = "top"
  /\ UNCHANGED <<schedVars, runCfg, llmKind, max_cycles, cycles, now, next_action,
                 actionPasses, postStarts, iterTasks>>

NextLoop ==
  /\ RunStart \/ LoopTop \/ LoopSlot \/ LoopEndPost
  /\ UNCHANGED <<storeVars, fbVars, onceVars, loginVars>>

SpecLoop == InitLoop /\ [][NextLoop]_vars

(***************************************************************************)
(* SpecOnce : XVioletAgent.run_once                                        *)
(***************************************************************************)
\* tweet objects handed back by poll: author / text present or not, and
\* whether in_reply_to_tweet_id is set
TweetObjs ==
  {[id |-> 1, author |-> FALSE, text |-> TRUE, in_reply_to_tweet_id |-> FALSE],
   [id |-> 1, author |-> TRUE, text |-> FALSE, in_reply_to_tweet_id |-> FALSE]}
  \cup [id : Ids, author : {TRUE}, text : {TRUE}, in_reply_to_tweet_id : BOOLEAN]

Timelines == SeqsUpTo(TweetObjs, MaxTimeline)

\* a mutant of the slice: the polled list is not truncated
first_n_all(t, limit) == t

\* timeline[:limit] for limit >= 0
first_n(t, limit) == SubSeq(t, 1, IF limit < Len(t) THEN limit ELSE Len(t))

not_timeline_never(t) == FALSE

\* "if not timeline"
not_timeline(t) == t = <<>>

\* what the two self.llm calls of a tweet give when self.llm has the methods:
\* build_action_prompt raises, generate_structured_output raises or gives
\* None, or it gives a dict whose "action" is one of the action strings
StructOutcomes == {"prompt_raises", "raise", "None"} \cup ActionKinds

\* the body of the tweet loop for one tweet object; every exception is caught
\* by one of the two handlers of the loop body
process_tweet(d, f, kind, tweet_obj, out, tw, io) ==
  LET same == [data |-> d, file |-> f, dispatched |-> 0, llm |-> 0]
  IN  IF ~tweet_obj.author \/ ~tweet_obj.text THEN same
      ELSE IF kind # "sync" THEN same
      ELSE IF out = "prompt_raises" THEN [same EXCEPT !.llm = 1]
      ELSE IF out \in {"raise", "None"} THEN [same EXCEPT !.llm = 2]
      ELSE LET r == dispatch(d, f, out, tweet_obj.id,
                             tweet_obj.in_reply_to_tweet_id, tw, io)
           IN  [data |-> r.data, file |-> r.file, dispatched |-> 1, llm |-> 2]

InitOnce ==
  /\ IdleLogin
  /\ IdleFallback
  /\ IdleSched
  /\ data \in InitLedgers
  /\ file = data
  /\ lastOp = NoOp
  /\ okCalls = [i \in Ids |-> 0]
  /\ allCalls = [i \in Ids |-> 0]
  /\ addedOK = {}
  /\ everRemoved = FALSE
  /\ opCount = 0
  /\ runCfg = [enable_action_processing |-> FALSE,
               enable_twitter_post_generation |-> FALSE,
               post_immediately |-> FALSE,
               action_interval |-> 0,
               post_interval_min |-> 0,
               post_interval_max |-> 0]
  /\ llmKind \in {"async", "sync", "none"}
  /\ max_cycles = <<>>
  /\ loopPc = "new"
  /\ cycles = 0
  /\ now = 0
  /\ next_action = 0
  /\ next_post = 0
  /\ actionPasses = 0
  /\ postStarts = 0
  /\ postDone = 0
  /\ iterTasks = <<>>
  /\ max_actions_processing \in 0..MaxTimeline
  /\ polled = <<>>
  /\ timeline = <<>>
  /\ oncePc = "new"
  /\ tweetIdx = 0
  /\ dispatchCalls = 0
  /\ llmCalls = 0
  /\ ledgerAtStart = <<>>

\* login, poll, the slice, and the return on an empty timeline
OnceStart ==
  /\ oncePc = "new"
  /\ \E p \in Timelines :
       /\ polled' = p
       /\ timeline' = first_n(p, max_actions_processing)
  /\ oncePc' = IF not_timeline(timeline') THEN "returned" ELSE "tweets"
  /\ ledgerAtStart' = <<data, file>>
  /\ UNCHANGED <<data, file, max_actions_processing, tweetIdx, dispatchCalls, llmCalls>>

\* one pass of "for tweet_obj in timeline"
OnceTweet ==
  /\ oncePc = "tweets"
  /\ tweetIdx < Len(timeline)
  /\ \E out \in StructOutcomes, tw \in TwOutcomes, io \in SaveOutcomes :
       LET r == process_tweet(data, file, llmKind, timeline[tweetIdx + 1], out, tw, io)
       IN  /\ data' = r.data
           /\ file' = r.file
           /\ dispatchCalls' = dispatchCalls + r.dispatched
           /\ llmCalls' = llmCalls + r.llm
  /\ tweetIdx' = tweetIdx + 1
  /\ UNCHANGED <<max_actions_processing, polled, timeline, oncePc, ledgerAtStart>>

\* the tweet loop is over and run_once returns
OnceEnd ==
  /\ oncePc = "tweets"
  /\ tweetIdx >= Len(timeline)
  /\ oncePc' = "returned"
  /\ UNCHANGED <<data, file, max_actions_processing, polled, timeline, tweetIdx,
                 dispatchCalls, llmCalls, ledgerAtStart>>

NextOnce ==
  /\ OnceStart \/ OnceTweet \/ OnceEnd
  /\ UNCHANGED <<lastOp, okCalls, allCalls, addedOK, everRemoved, opCount,
                 fbVars, schedVars, loopVars, loginVars>>

SpecOnce == InitOnce /\ [][NextOnce]_vars

(***************************************************************************)
(* SpecLogin : calls of TwitterClient.login on one client                  *)
(***************************************************************************)
InitLogin ==
  /\ IdleOnce
  /\ IdleDispatch
  /\ IdleFallback
  /\ IdleSched
  /\ IdleLoop
  /\ authCfg \in AuthConfigs
  /\ twClient = "None"
  /\ logged_in = FALSE
  /\ loginPc = "idle"
  /\ methodIdx = 0
  /\ lastLogin = NoLogin
  /\ loginCalls = 0

\* login up to the first authentication block: the dry-run return and the
\* lazy initialisation of proxy and client
LoginStart ==
  /\ loginPc \in {"idle", "returned", "raised"}
  /\ loginCalls < MaxLogins
  /\ loginCalls' = loginCalls + 1
  /\ IF authCfg.dry_run
     THEN /\ logged_in' = TRUE
          /\ lastLogin' = [NoLogin EXCEPT !.ret = "True"]
          /\ loginPc' = "returned"
          /\ methodIdx' = 0
          /\ UNCHANGED twClient
     ELSE \E ld \in LoadOutcomesFor(twClient) :
            /\ lastLogin' = [NoLogin EXCEPT !.load = ld,
                                !.ret = CASE ld = "RuntimeError" -> "False"
                                          [] ld = "other_error" -> "raised"
                                          [] OTHER -> "none"]
            /\ logged_in' = IF ld = "RuntimeError" THEN FALSE ELSE logged_in
            /\ twClient' = IF ld = "ok" THEN "Client" ELSE twClient
            /\ loginPc' = CASE ld = "RuntimeError" -> "returned"
                           [] ld = "other_error" -> "raised"
                           [] OTHER -> "attempts"
            /\ methodIdx' = IF ld \in {"ok", "none"} THEN 1 ELSE 0
  /\ UNCHANGED authCfg

\* one authentication block: skipped when its guard is false, otherwise its
\* body runs and either returns True or falls through to the next block
LoginAttempt ==
  /\ loginPc = "attempts"
  /\ methodIdx \in DOMAIN AuthMethods
  /\ LET m == AuthMethods[methodIdx]
     IN  IF ~configured(authCfg, m)
         THEN /\ methodIdx' = methodIdx + 1
              /\ UNCHANGED <<logged_in, loginPc, lastLogin>>
         ELSE \E out \in AttemptOutcomes(m) :
                /\ lastLogin' = [lastLogin EXCEPT
                                   !.attempts = Append(@, <<m, out>>),
                                   !.ret = IF out = "ok" THEN "True" ELSE @]
                /\ logged_in' = IF out = "ok" THEN TRUE ELSE logged_in
                /\ loginPc' = IF out = "ok" THEN "returned" ELSE loginPc
                /\ methodIdx' = IF out = "ok" THEN methodIdx ELSE methodIdx + 1
  /\ UNCHANGED <<authCfg, twClient, loginCalls>>

\* past the last block: "All authentication attempts failed."
LoginFail ==
  /\ loginPc = "attempts"
  /\ methodIdx = Len(AuthMethods) + 1
  /\ logged_in' = FALSE
  /\ lastLogin' = [lastLogin EXCEPT !.ret = "False"]
  /\ loginPc' = "returned"
  /\ UNCHANGED <<authCfg, twClient, methodIdx, loginCalls>>

NextLogin ==
  /\ LoginStart \/ LoginAttempt \/ LoginFail
  /\ UNCHANGED <<storeVars, fbVars, schedVars, loopVars, onceVars>>

SpecLogin == InitLogin /\ [][NextLogin]_vars

(***************************************************************************)
(* Properties of the interaction ledger and the dispatcher (SpecDispatch)  *)
(***************************************************************************)
\* only dispatches with conversation=false so far, and no remove_interaction / clear
OnlyPlainDispatches == lastOp.noConvOnly /\ ~everRemoved

\* C1 (as stated): with conversation=false and no remove_interaction / clear,
\* the Twitter client is called at most once per tweet id: after the first
\* dispatch that called it, no later dispatch calls a Twitter client method.
C1_Original ==
  OnlyPlainDispatches => \A i \in Ids : allCalls[i] <= 1

\* C1 (amended): with conversation=false and no remove_interaction / clear, at
\* most one Twitter client call per tweet id returns without raising; dispatch
\* returns True only after making such a call for an id that had none before;
\* every dispatch for an id after such a call returns False and calls no
\* Twitter client method.
C1_AtMostOnce ==
  OnlyPlainDispatches =>
    /\ \A i \in Ids : okCalls[i] <= 1
    /\ (lastOp.op = "dispatch" /\ lastOp.ret = "True") =>
          /\ lastOp.called # "none"
          /\ lastOp.tw # "raise"
          /\ lastOp.okBefore = 0
    /\ (lastOp.op = "dispatch" /\ lastOp.okBefore >= 1) =>
          /\ lastOp.ret = "False"
          /\ lastOp.called = "none"

\* a second dispatch for an id whose first dispatch acted is refused
C1_Witness ==
  /\ OnlyPlainDispatches
  /\ lastOp.op = "dispatch"
  /\ lastOp.action \in SUPPORTED_ACTIONS
  /\ lastOp.okBefore = 1
  /\ lastOp.ret = "False"
  /\ lastOp.called = "none"

ConvDispatchOnLedgerId ==
  /\ lastOp.op = "dispatch"
  /\ lastOp.conversation
  /\ lastOp.action \in SUPPORTED_ACTIONS
  /\ lastOp.inLedgerBefore

\* C2 (as stated): dispatch with conversation=true and any supported action
\* kind calls the Twitter client and, when that call returns, returns True even
\* if the tweet id is already in the ledger.
C2_Original ==
  ConvDispatchOnLedgerId =>
    /\ lastOp.called # "none"
    /\ (lastOp.tw # "raise" => lastOp.ret = "True")

\* C2 (amended): with conversation=true and the tweet id already in the ledger,
\* REPLY calls the client's reply and returns True when that call returns (the
\* exception propagates when it raises); QUOTE_TWEET, LIKE and RETWEET ignore
\* the flag: they return False and call no Twitter client method.
C2_ReplyOverride ==
  ConvDispatchOnLedgerId =>
    IF lastOp.action = "REPLY"
    THEN /\ lastOp.called = "reply"
         /\ (lastOp.tw # "raise" => lastOp.ret = "True")
         /\ (lastOp.tw = "raise" => lastOp.ret = "raised")
    ELSE /\ lastOp.called = "none"
         /\ lastOp.ret = "False"

\* a conversation reply to a tweet already in the ledger went out
C2_Witness ==
  /\ ConvDispatchOnLedgerId
  /\ lastOp.action = "REPLY"
  /\ lastOp.called = "reply"
  /\ lastOp.ret = "True"

\* C3: every id whose add_interaction returned, with no remove_interaction(id)
\* or clear since, is reported by has_interacted on the live store and on a
\* store reloaded from the ledger file.
C3_AddPersists ==
  \A i \in addedOK :
    /\ has_interacted(data, i)
    /\ file # Corrupt
    /\ has_interacted(load(file), i)

(***************************************************************************)
(* Properties of the fallback managers (SpecFallback)                      *)
(***************************************************************************)
IsValue(out) == out \notin {"raise", "None"}

\* C4: in generate_text / analyze_image / analyze_video the providers are
\* called once each in configuration order; every provider called before the
\* last one raised or returned None; the first value returned by a provider is
\* the result, unmodified, and no provider after it is called; None is the
\* result only after every provider was called.
C4_FirstValueWins ==
  fbOp.mgr = "llm" =>
    LET n == Len(fbOp.calls)
    IN  /\ Len(fbOp.outs) = n
        /\ \A j \in 1..n : fbOp.calls[j] = j
        /\ \A j \in 1..n : j < n => ~IsValue(fbOp.outs[j])
        /\ fbOp.phase = "running" => \A j \in 1..n : ~IsValue(fbOp.outs[j])
        /\ (fbOp.phase = "returned" /\ n >= 1 /\ IsValue(fbOp.outs[n])) =>
              fbOp.result = [val |-> fbOp.outs[n], by |-> providers[n]]
        /\ (fbOp.phase = "returned" /\ (n = 0 \/ ~IsValue(fbOp.outs[n]))) =>
              /\ fbOp.result = NoResult
              /\ n = Len(providers)

\* A raised, B returned None, C returned a text: C's text is the result and
\* the fourth provider was not called
C4_Witness ==
  /\ fbOp.mgr = "llm"
  /\ fbOp.phase = "returned"
  /\ Len(providers) = 4
  /\ fbOp.outs = <<"raise", "None", "text">>
  /\ fbOp.calls = <<1, 2, 3>>
  /\ fbOp.result = [val |-> "text", by |-> providers[3]]

\* an outcome of a backend call that is an exception or the no-result sentinel
FailingOutcome(mgr, op, out) ==
  \/ out = "raise"
  \/ mgr = "llm" /\ out = "None"
  \/ mgr = "vector" /\ out \in {"None", VecSentinel(op)}

\* C5: a manager operation whose backends all raised or returned the
\* no-result sentinel (or that had no backend to call) returns the operation's
\* sentinel and does not raise.
C5_AllFailSentinel ==
  ( /\ fbOp.phase \in {"returned", "raised"}
    /\ \A j \in DOMAIN fbOp.outs : FailingOutcome(fbOp.mgr, fbOp.op, fbOp.outs[j]) )
  => /\ fbOp.phase = "returned"
     /\ fbOp.result.val = IF fbOp.mgr = "llm" THEN "None" ELSE VecSentinel(fbOp.op)

C7_Pre ==
  /\ schedPc = "done"
  /\ config.media_tweet_probability = 2
  /\ config.max_scheduled_tweets_total = 1
  /\ config.max_scheduled_media_tweets >= 1
  /\ Cardinality(cycleStats.unusedAtStart) = 1
  /\ lastSlot.llmOut = "text"

C7_MediaPostMade ==
  \E f \in cycleStats.unusedAtStart :
    /\ cycleStats.schedCalls = 1
    /\ lastSlot.schedMedia = media_path(f)
    /\ scheduled_in_this_cycle = 1
    /\ lastSlot.marked = {f}
    /\ f \in used_media_set

\* C7 (as stated): probability 1.0, total 1, media cap >= 1, exactly one unused
\* image and an LLM that returns a caption: the cycle makes exactly one
\* schedule call, carrying the file, returns 1, and the file name is passed to
\* the mark-used function and added to the used-media set.
C7_Original == C7_Pre => C7_MediaPostMade

\* C7 (amended): under the same conditions the cycle makes exactly one schedule
\* call and it carries the file; when that call returns without raising the
\* cycle returns 1 and the file name is passed to the mark-used function and
\* added to the used-media set; when it raises the cycle returns 0 and the
\* file is neither marked nor added.
C7_OneMediaPost ==
  C7_Pre =>
    /\ cycleStats.schedCalls = 1
    /\ \E f \in cycleStats.unusedAtStart : lastSlot.schedMedia = media_path(f)
    /\ lastSlot.schedOut = "ok" => C7_MediaPostMade
    /\ lastSlot.schedOut = "raise" =>
          /\ scheduled_in_this_cycle = 0
          /\ lastSlot.marked = {}
          /\ cycleStats.unusedAtStart \cap used_media_set = {}

C7_Witness ==
  /\ C7_Pre
  /\ lastSlot.schedOut = "ok"
  /\ C7_MediaPostMade

\* C8: with media_tweet_probability = 0.0 no step makes a slot a media
\* attempt: no slot is media-eligible, selects a file or calls analyze_image,
\* no schedule call carries a media path, and the used-media set and the
\* used-media log do not change.
C8_NoMediaAtZero ==
  [][ config.media_tweet_probability = 0 =>
        /\ ~lastSlot'.eligible
        /\ lastSlot'.selected = NoPath
        /\ lastSlot'.llm # "analyze_image"
        /\ lastSlot'.schedMedia = NoPath
        /\ used_media_set' = used_media_set
        /\ usedLog' = usedLog ]_vars

\* a text post went out at probability 0.0 although an unused image was there
C8_Witness ==
  /\ config.media_tweet_probability = 0
  /\ config.max_scheduled_media_tweets >= 1
  /\ unused_media_files(config, mediaDir, used_media_set) # {}
  /\ lastSlot.llm = "generate_text"
  /\ lastSlot.schedCalled
  /\ lastSlot.schedOut = "ok"
  /\ scheduled_in_this_cycle >= 1

(***************************************************************************)
(* Properties of the agent's control loop (SpecLoop)                       *)
(***************************************************************************)
ZeroIntervalsBothOn ==
  /\ runCfg.enable_action_processing
  /\ runCfg.enable_twitter_post_generation
  /\ runCfg.action_interval = 0
  /\ runCfg.post_interval_min = 0
  /\ runCfg.post_interval_max = 0

\* C9: run(max_cycles=N) with N >= 1 does not end by raising, and it exits in
\* the pass where the cycle counter reaches N; with zero intervals and both
\* tasks enabled exactly N-1 action-processing passes and N-1 post-generation
\* cycles have run when it exits.
C9_CapCounts ==
  max_cycles # <<>> =>
    /\ loopPc # "raised"
    /\ loopPc = "exited" => cycles = max_cycles[1]
    /\ (loopPc = "exited" /\ ZeroIntervalsBothOn) =>
          /\ actionPasses = max_cycles[1] - 1
          /\ postDone = max_cycles[1] - 1

\* passes of the loop that went past the cap check
ExecutedIterations == IF loopPc = "exited" THEN cycles - 1 ELSE cycles

C11_EmptyPollNoWork ==
  (oncePc # "new" /\ polled = <<>>) =>
    /\ oncePc = "returned"
    /\ dispatchCalls = 0
    /\ llmCalls = 0
    /\ <<data, file>> = ledgerAtStart

\* the pass returned on an empty poll although the configured limit and the
\* LLM object would have let it process tweets
C11_Witness ==
  /\ oncePc = "returned"
  /\ polled = <<>>
  /\ max_actions_processing >= 1
  /\ llmKind = "sync"
  /\ dispatchCalls = 0

(***************************************************************************)
(* Further properties of the dispatcher (SpecDispatch)                     *)
(***************************************************************************)
\* C12: for every tweet id, ledger and flag value, should_interact(id,
\* conversation) returns True iff conversation is set or the id is not in the
\* interaction ledger.
C12_GateIff ==
  lastOp.op = "should_interact" =>
    (lastOp.ret = "True" <=> (lastOp.conversation \/ ~lastOp.inLedgerBefore))

\* the gate refused an id the same store had recorded through a dispatch
C12_Witness ==
  /\ lastOp.op = "should_interact"
  /\ ~lastOp.conversation
  /\ lastOp.inLedgerBefore
  /\ lastOp.id \in addedOK
  /\ lastOp.ret = "False"

\* C13: a dispatch whose action kind is outside {QUOTE_TWEET, REPLY, LIKE,
\* RETWEET} returns False without raising, calls no Twitter client method and
\* leaves the ledger, in memory and on disk, as it was.
C13_UnsupportedKind ==
  [][ (lastOp'.op = "dispatch" /\ opCount' = opCount + 1
       /\ lastOp'.action \notin SUPPORTED_ACTIONS) =>
        /\ lastOp'.ret = "False"
        /\ lastOp'.called = "none"
        /\ data' = data
        /\ file' = file ]_vars

\* "reply" in lower case was refused for an id and flag REPLY would have acted on
C13_Witness ==
  /\ lastOp.op = "dispatch"
  /\ lastOp.action = "reply"
  /\ ~lastOp.inLedgerBefore
  /\ lastOp.conversation
  /\ lastOp.ret = "False"
  /\ lastOp.called = "none"

ActedAndClientReturned ==
  /\ lastOp.op = "dispatch"
  /\ lastOp.called # "none"
  /\ lastOp.tw # "raise"

\* C14: when a dispatch decides to act and the Twitter client call returns
\* without raising, whatever value it returns (True or False), the tweet id is
\* in the interaction ledger afterwards and dispatch returns True.
C14_RecordThenTrue ==
  ActedAndClientReturned =>
    /\ lastOp.ret = "True"
    /\ has_interacted(data, lastOp.id)

DispatchStep == lastOp'.op = "dispatch" /\ opCount' = opCount + 1

C16_CounterBounds ==
  /\ 0 <= media_scheduled_this_cycle
  /\ media_scheduled_this_cycle <= scheduled_in_this_cycle
  /\ scheduled_in_this_cycle <= config.max_scheduled_tweets_total
  /\ media_scheduled_this_cycle <= config.max_scheduled_media_tweets
  /\ scheduled_in_this_cycle = cycleStats.okPosts
  /\ media_scheduled_this_cycle = cycleStats.okMediaPosts
  /\ (schedPc = "slots" /\ slotIdx = 0) =>
        (scheduled_in_this_cycle = 0 /\ media_scheduled_this_cycle = 0)
  /\ schedPc = "done" => cycleStats.returned = <<scheduled_in_this_cycle>>

\* a second cycle that reached both caps after a first one that posted media
C16_Witness ==
  /\ cyclesRun = 2
  /\ schedPc = "done"
  /\ config.max_scheduled_tweets_total = 2
  /\ config.max_scheduled_media_tweets = 1
  /\ scheduled_in_this_cycle = 2
  /\ media_scheduled_this_cycle = 1
  /\ \E f \in ImageFiles, g \in ImageFiles :
       f # g /\ mediaPosts[f] = 1 /\ mediaPosts[g] = 1

SlotStep == slotIdx' = slotIdx + 1

\* C17: a slot whose generation call (analyze_image for the chosen media file,
\* generate_text for a text slot) returns None or empty text is skipped: no
\* schedule call is made for it, total_scheduled and media_scheduled keep
\* their values, and the used-media set and the used-media log are unchanged.
C17_NoTextSkipsSlot ==
  [][ (SlotStep /\ lastSlot'.llmOut \in {"None", ""}) =>
        /\ ~lastSlot'.schedCalled
        /\ cycleStats'.schedCalls = cycleStats.schedCalls
        /\ scheduled_in_this_cycle' = scheduled_in_this_cycle
        /\ media_scheduled_this_cycle' = media_scheduled_this_cycle
        /\ used_media_set' = used_media_set
        /\ usedLog' = usedLog ]_vars

\* analyze_image gave empty text for a selected file: nothing was scheduled
\* and the file is still unused
C17_Witness ==
  /\ lastSlot.is_media_attempt
  /\ lastSlot.llm = "analyze_image"
  /\ lastSlot.llmOut = ""
  /\ ~lastSlot.schedCalled
  /\ lastSlot.selected \in unused_media_files(config, mediaDir, used_media_set)
  /\ scheduled_in_this_cycle = 0

SlotRaised ==
  \/ lastSlot'.llmOut = "raise"
  \/ lastSlot'.schedCalled /\ lastSlot'.schedOut = "raise"

\* C18: an exception raised in a slot by the LLM manager (analyze_image or
\* generate_text) or by the schedule call does not leave run_schedule_cycle:
\* the slot posts nothing (no counter, no used-media change) and the cycle
\* stays in its slot loop, from where later slots are scheduled and the cycle
\* returns; the cycle raises only when the listing of the media directory does.
C18_SlotFailureContained ==
  [][ /\ schedPc' = "raised" => lastSlot'.listOut = "raise"
      /\ (SlotStep /\ SlotRaised) =>
            /\ schedPc' = "slots"
            /\ scheduled_in_this_cycle' = scheduled_in_this_cycle
            /\ media_scheduled_this_cycle' = media_scheduled_this_cycle
            /\ used_media_set' = used_media_set
            /\ usedLog' = usedLog
            /\ mediaPosts' = mediaPosts ]_vars

\* the cycle returned 1: its first schedule call raised, its second returned
C18_Witness ==
  /\ schedPc = "done"
  /\ slotIdx = 2
  /\ cycleStats.schedCalls = 2
  /\ cycleStats.okPosts = 1
  /\ lastSlot.schedCalled
  /\ lastSlot.schedOut = "ok"
  /\ cycleStats.returned = <<1>>

(***************************************************************************)
(* Further properties of the agent's control loop (SpecLoop)               *)
(***************************************************************************)
\* a pass of the loop goes past the cap check with both tasks due
BothDuePass ==
  /\ loopPc = "top"
  /\ cycles' = cycles + 1
  /\ loopPc' # "exited"
  /\ runCfg.enable_action_processing /\ due(now', next_action)
  /\ runCfg.enable_twitter_post_generation /\ due(now', next_post)

\* C19: in a pass of the loop in which both tasks are due the
\* action-processing pass is made, and has returned, before the
\* post-generation cycle begins; post generation never comes first, and while
\* the slots of a post-generation cycle run no action-processing pass is made.
C19_ActionBeforePost ==
  [][ /\ iterTasks' \in {<<>>, <<"action">>, <<"post">>, <<"action", "post">>}
      /\ BothDuePass =>
            /\ iterTasks' = <<"action", "post">>
            /\ actionPasses' = actionPasses + 1
            /\ postStarts' = postStarts + 1
            /\ loopPc' = "slots"
      /\ loopPc = "slots" =>
            /\ actionPasses' = actionPasses
            /\ next_action' = next_action ]_vars

\* second pass, intervals of one second, both tasks due again and begun in order
C19_Witness ==
  /\ cycles = 2
  /\ loopPc = "slots"
  /\ runCfg.action_interval = 1
  /\ runCfg.post_interval_min = 1
  /\ iterTasks = <<"action", "post">>
  /\ actionPasses = 2
  /\ postStarts = 2

\* C20: with no cycle cap, no error raised by an external collaborator during
\* either sub-task (login, poll, the LLM calls, the vector search, the schedule
\* call, the listing of the media directory) leaves run: run neither raises
\* nor returns.
C20_LoopNeverStops ==
  max_cycles = <<>> => loopPc \notin {"raised", "exited"}

(***************************************************************************)
(* Durability of the persisted state (SpecDispatch, SpecSched)             *)
(***************************************************************************)
\* the ids held by a ledger list
IdSet(d) == {d[k] : k \in DOMAIN d}

StoreOpReturned ==
  /\ lastOp.op \in {"add_interaction", "remove_interaction", "clear"}
  /\ lastOp.ret = "None"

\* C21: after add_interaction, remove_interaction or clear returns, the ledger
\* file is readable and the set of ids it stores equals the in-memory set.
C21_FileEqualsMemory ==
  StoreOpReturned =>
    /\ file # Corrupt
    /\ IdSet(load(file)) = IdSet(data)

\* C22: a failure to write persisted state is fatal to the call that triggered
\* it: when the append to the used-media log fails with an I/O error, the
\* exception leaves the slot that posted the media (as a failed save of the
\* ledger leaves add_interaction and dispatch).
C22_WriteFailureFatal ==
  lastSlot.markOut = "io_error" => schedPc = "raised"

UsableEntries == {p \in DOMAIN llmConfigs : llmConfigs[p] = "ok"}

\* C24: the provider list of a constructed LLMFallbackManager holds exactly the
\* usable configuration entries, each once, in configuration order, whatever
\* the other entries are, and is_enabled is true iff that list is not empty.
C24_ProvidersAreUsableEntries ==
  /\ {providers[j] : j \in DOMAIN providers} = UsableEntries
  /\ \A j, k \in DOMAIN providers : j < k => providers[j] < providers[k]
  /\ is_enabled(providers) <=> UsableEntries # {}

\* entries after one whose constructor raised and after one of unknown type
\* were still constructed
C24_Witness ==
  /\ Len(llmConfigs) = 4
  /\ llmConfigs[1] = "ctor_raises"
  /\ llmConfigs[3] = "unknown_type"
  /\ providers = <<2, 4>>
  /\ is_enabled(providers)

(***************************************************************************)
(* Properties of the vector-store fallback manager (SpecVector)            *)
(***************************************************************************)
\* the store types of the entries that are enabled and valid, in order
RECURSIVE EnabledValidStores(_, _)
EnabledValidStores(store_configs, k) ==
  IF k > Len(store_configs) THEN <<>>
  ELSE IF store_configs[k] \in {"local", "remote"}
  THEN <<store_configs[k]>> \o EnabledValidStores(store_configs, k + 1)
  ELSE EnabledValidStores(store_configs, k + 1)

\* C25: a constructed VectorStoreFallbackManager holds one store per enabled,
\* valid configuration entry, in configuration order (disabled entries, entries
\* missing type or config and unknown types are skipped), and its operations
\* run over those stores: an operation calls only positions of that list.
C25_StoresAreEnabledEntries ==
  /\ stores # Unset
  /\ stores = EnabledValidStores(storeConfigs, 1)
  /\ fbOp.mgr = "vector" =>
       /\ fbOp.phase = "returned"
       /\ \A j \in DOMAIN fbOp.calls : fbOp.calls[j] \in DOMAIN stores

VecOpEnded == fbOp.mgr = "vector" /\ fbOp.phase \in {"returned", "raised"}

\* the value a store call must not be taken for: [] for search and
\* add_documents, None for get_document_by_id, False for delete_documents
\* (a store that raised or returned None gave no value either)
GaveNoValue(op, out) == out \in {"raise", "None", VecSentinel(op)}

\* C26: in an operation of the manager, a store that returns the operation's
\* no-usable-result sentinel does not end the fallback: the operation returns,
\* and the store whose result is returned did not return the sentinel.
C26_SentinelContinues ==
  VecOpEnded =>
    /\ fbOp.phase = "returned"
    /\ fbOp.result.by # 0 => ~GaveNoValue(fbOp.op, fbOp.outs[fbOp.result.by])

\* the store's declared type cannot consume the query representation
TypeMismatch(storeType, query) ==
  \/ storeType = "local" /\ query = "embedding"
  \/ storeType # "local" /\ query = "text"

\* C27: in search, a store whose declared type cannot consume the query
\* representation is not called, the search does not raise, and the stores
\* after it are still tried.
C27_MismatchSkipped ==
  (VecOpEnded /\ fbOp.op = "search") =>
    /\ fbOp.phase = "returned"
    /\ \A j \in DOMAIN fbOp.calls : ~TypeMismatch(stores[fbOp.calls[j]], fbOp.query)

(***************************************************************************)
(* Counting and marking against what the client did (SpecSched)            *)
(***************************************************************************)
\* C28: a slot increments total_scheduled only if the client scheduled the
\* post, and increments media_scheduled, adds to the used-media set or appends
\* to the used-media log only if the client scheduled the post with the media
\* attached: a schedule failure or a media-upload failure inside
\* schedule_tweet_from_agent leaves all four unchanged.
C28_CountOnlyScheduled ==
  [][ SlotStep =>
        /\ scheduled_in_this_cycle' # scheduled_in_this_cycle =>
             /\ lastSlot'.posted \in {"scheduled", "scheduled_without_media"}
             /\ lastSlot'.schedMedia # NoPath => lastSlot'.posted = "scheduled"
        /\ ( \/ media_scheduled_this_cycle' # media_scheduled_this_cycle
             \/ used_media_set' # used_media_set
             \/ usedLog' # usedLog ) => lastSlot'.posted = "scheduled" ]_vars

(***************************************************************************)
(* Readiness of the LLM manager in the control loop (SpecLoop)             *)
(***************************************************************************)
\* self.llm exists (a manager that exists may still have no provider)
LlmManagerExists == llmKind # "none"

\* C29: a pass of the loop starts a post-generation cycle only if post
\* generation is enabled, now >= next_post and the LLM manager is ready; with
\* no LLM manager no cycle starts and no slot of a cycle runs.
C29_PostNeedsReadyLlm ==
  [][ /\ postStarts' # postStarts =>
           /\ runCfg.enable_twitter_post_generation
           /\ due(now', next_post)
           /\ LlmManagerExists
      /\ slotIdx' # slotIdx => LlmManagerExists ]_vars

(***************************************************************************)
(* Further properties of the process-interactions pass (SpecOnce)          *)
(***************************************************************************)
\* the items of the sliced timeline that have an author, an id and text
CompleteItems == {k \in DOMAIN timeline : timeline[k].author /\ timeline[k].text}

\* C30: in one pass, every polled item within the limit that has an author, an
\* id and text gets exactly one ActionManager.dispatch call, made after the two
\* LLM manager calls that build the prompt and obtain the decision.
C30_OneDispatchPerItem ==
  oncePc = "returned" =>
    /\ dispatchCalls = Cardinality(CompleteItems)
    /\ llmCalls = 2 * Cardinality(CompleteItems)

\* C31: one pass goes through at most max_actions_processing polled items,
\* the first ones in polled order, and makes at most that many dispatch calls,
\* however many items poll returned.
C31_PassBoundedByLimit ==
  oncePc # "new" =>
    /\ Len(timeline) <= max_actions_processing
    /\ Len(timeline) <= Len(polled)
    /\ Len(timeline) < max_actions_processing => Len(timeline) = Len(polled)
    /\ \A k \in DOMAIN timeline : timeline[k] = polled[k]
    /\ tweetIdx <= Len(timeline)
    /\ dispatchCalls <= tweetIdx
    /\ dispatchCalls <= max_actions_processing

\* poll returned more items than the limit and the pass dispatched for the
\* first max_actions_processing of them only
C31_Witness ==
  /\ oncePc = "returned"
  /\ max_actions_processing >= 1
  /\ Len(polled) > max_actions_processing
  /\ llmKind = "sync"
  /\ dispatchCalls = max_actions_processing

\* the media directory is missing, or every image file in it is in the used set
NoUnusedImage ==
  ~config.dir_exists \/ \A f \in mediaDir \cap ImageFiles : f \in used_media_set

NoDuplicates(d) == \A j, k \in DOMAIN d : d[j] = d[k] => j = k

\* C33: after any sequence of add_interaction, remove_interaction and clear
\* (and dispatch) calls every id occurs at most once in the in-memory list and
\* in the list stored in the file; add_interaction of an id already present
\* changes neither the list nor the file.
C33_NoDuplicateIds ==
  [][/\ NoDuplicates(data')
     /\ (file' # Corrupt => NoDuplicates(load(file')))
     /\ (/\ opCount' = opCount + 1
         /\ lastOp'.op = "add_interaction"
         /\ has_interacted(data, lastOp'.id))
        => (data' = data /\ file' = file)]_vars

\* add_interaction was called for an id already in a ledger of two ids
C33_Witness ==
  /\ lastOp.op = "add_interaction"
  /\ lastOp.inLedgerBefore
  /\ lastOp.ret = "None"
  /\ Len(data) = NumIds
  /\ file = data

\* C34: when remove_interaction(id) returns, has_interacted(id) is false and
\* the membership of every other id is as before; when clear returns,
\* has_interacted is false for every id; a store reloaded from the file sees
\* the same memberships.
C34_RemoveAndClearVisible ==
  [][(/\ opCount' = opCount + 1
      /\ lastOp'.op \in {"remove_interaction", "clear"}
      /\ lastOp'.ret = "None")
     => (/\ \A i \in Ids :
              has_interacted(data', i) <=>
                (/\ lastOp'.op = "remove_interaction"
                 /\ i # lastOp'.id
                 /\ has_interacted(data, i))
         /\ file' # Corrupt
         /\ \A i \in Ids :
              has_interacted(load(file'), i) <=> has_interacted(data', i))]_vars

(***************************************************************************)
(* Further properties of the scheduling cycle (SpecSched)                  *)
(***************************************************************************)
\* C35: the used-media set only grows, and it changes only in a step of the
\* slot loop, by the name of the file of the media post that the step has just
\* scheduled (the set is one variable, read and written by the agent's and
\* the scheduler's loop alike).
C35_UsedSetWrittenAfterMediaPost ==
  [][/\ used_media_set \subseteq used_media_set'
     /\ used_media_set' # used_media_set =>
          /\ schedPc = "slots"
          /\ slotIdx' = slotIdx + 1
          /\ lastSlot'.schedCalled
          /\ lastSlot'.schedOut = "ok"
          /\ lastSlot'.schedMedia # NoPath
          /\ used_media_set' = used_media_set \cup {basename(lastSlot'.schedMedia)}
          /\ lastSlot'.posted = "scheduled"]_vars

(***************************************************************************)
(* Further properties of the run loop (SpecLoop)                           *)
(***************************************************************************)
\* a step of the loop in which the action-processing block ran
ActionPassStep == loopPc = "top" /\ actionPasses' = actionPasses + 1

\* a step of the loop in which a post-generation cycle began
PostCycleStep == loopPc = "top" /\ postStarts' = postStarts + 1

\* C36: an action pass runs only in an iteration whose start time has reached
\* next_action, and sets next_action to that start time plus action_interval;
\* a post cycle begins only when the start time has reached next_post, and at
\* its end next_post is at least that start time plus post_interval_min;
\* nothing else in the loop changes the two times.  Hence consecutive passes
\* are at least action_interval apart and consecutive post cycles at least
\* post_interval_min apart.
C36_IntervalsRespected ==
  [][/\ ActionPassStep =>
          /\ now' >= next_action
          /\ next_action' = now' + runCfg.action_interval
     /\ PostCycleStep => now' >= next_post
     /\ (loopPc # "new" /\ next_action' # next_action) => ActionPassStep
     /\ (loopPc # "new" /\ next_post' # next_post) =>
          /\ loopPc = "slots"
          /\ postDone' = postDone + 1
     /\ (loopPc = "slots" /\ postDone' = postDone + 1) =>
          /\ next_post' >= now + runCfg.post_interval_min
          /\ next_post' <= now + runCfg.post_interval_max]_vars

\* two action passes and two post cycles have run with intervals of one second
C36_Witness ==
  /\ actionPasses >= 2
  /\ postDone >= 2
  /\ runCfg.action_interval = 1
  /\ runCfg.post_interval_min = 1
  /\ now >= 1

\* C37: the statements before the loop set next_action to the start time and
\* next_post to the start time when post_immediately is set, clearing the flag,
\* and otherwise to the start time plus a draw from
\* [post_interval_min, post_interval_max]; next_post keeps that value until
\* the first post cycle has ended, and a post cycle begins only at a time that
\* has reached next_post.  Hence without post_immediately no post cycle begins
\* before start + post_interval_min.
C37_InitialTimes ==
  [][/\ loopPc = "new" =>
          /\ next_action' = now
          /\ now' = now
          /\ IF runCfg.post_immediately
             THEN /\ next_post' = now
                  /\ runCfg' = [runCfg EXCEPT !.post_immediately = FALSE]
             ELSE /\ next_post' >= now + runCfg.post_interval_min
                  /\ next_post' <= now + runCfg.post_interval_max
                  /\ runCfg' = runCfg
     /\ (loopPc # "new" /\ postDone' = 0) => next_post' = next_post
     /\ (loopPc = "top" /\ postStarts' = postStarts + 1) => now' >= next_post]_vars

\* started without post_immediately and with a minimum interval of one second,
\* the loop began its first post cycle once the clock had reached next_post
C37_Witness ==
  /\ loopPc = "slots"
  /\ postStarts = 1
  /\ postDone = 0
  /\ runCfg.post_interval_min = 1
  /\ next_post = 1
  /\ now >= 1

\* C38: with enable_action_processing false no iteration runs the action
\* block (run_once is never called); with enable_twitter_post_generation false
\* no iteration begins a post cycle, nothing is generated or scheduled, and
\* the used-media set and its log stay as they were.
C38_DisabledBlocksNeverRun ==
  /\ ~runCfg.enable_action_processing =>
       /\ actionPasses = 0
       /\ \A k \in DOMAIN iterTasks : iterTasks[k] # "action"
  /\ ~runCfg.enable_twitter_post_generation =>
       /\ postStarts = 0
       /\ \A k \in DOMAIN iterTasks : iterTasks[k] # "post"
       /\ loopPc \in {"new", "top", "exited"}
       /\ scheduled_in_this_cycle = 0
       /\ used_media_set = {}
       /\ usedLog = <<>>

\* with both blocks disabled the loop went through two iterations in which
\* both times had been reached
C38_Witness ==
  /\ ~runCfg.enable_action_processing
  /\ ~runCfg.enable_twitter_post_generation
  /\ loopPc = "top"
  /\ cycles >= 2
  /\ now >= next_action
  /\ now >= next_post
  /\ now >= 1

\* a step that begins a scheduling cycle
CycleStartStep == schedPc \in {"idle", "done", "raised"} /\ cyclesRun' = cyclesRun + 1

\* C39: when the context search of a cycle raises, gives no documents or has
\* no manager to ask, the cycle goes on to its slot loop with empty context,
\* counters at zero and the configured quotas; no exception leaves the cycle.
C39_SearchFailureNotFatal ==
  [][(CycleStartStep /\ lastSlot'.search \in {"no_manager", "raise", "[]"})
     => (/\ schedPc' = "slots"
         /\ context' = FALSE
         /\ slotIdx' = 0
         /\ scheduled_in_this_cycle' = 0
         /\ media_scheduled_this_cycle' = 0
         /\ config' = config
         /\ used_media_set' = used_media_set)]_vars

\* a cycle whose context search gave no documents went on through its slot
\* loop and returned with its total reached
C39_Witness ==
  /\ schedPc = "done"
  /\ ~context
  /\ config.max_scheduled_tweets_total = MaxTotal
  /\ cycleStats.returned = <<MaxTotal>>

(***************************************************************************)
(* Properties of TwitterClient.login (SpecLogin)                           *)
(***************************************************************************)
\* a login call outside dry-run has ended
LoginEnded == loginPc \in {"returned", "raised"} /\ ~authCfg.dry_run /\ loginCalls >= 1

\* the configuration of a method, read from the configuration fields
IsConfigured(m) ==
  \/ m = "auth_token" /\ authCfg.twitter_auth_token
  \/ m = "cookie_file" /\ authCfg.cookie_file_exists
  \/ m = "credentials" /\ authCfg.twitter_username /\ authCfg.twitter_password

MethodPos(m) == CHOOSE k \in DOMAIN AuthMethods : AuthMethods[k] = m

MethodsTried == {lastLogin.attempts[k][1] : k \in DOMAIN lastLogin.attempts}

\* the attempts of the call: in the fixed order, configured methods only,
\* each after every configured earlier method was tried and failed
AttemptsInOrder ==
  LET att == lastLogin.attempts
  IN  /\ \A j, k \in DOMAIN att : j < k => MethodPos(att[j][1]) < MethodPos(att[k][1])
      /\ \A k \in DOMAIN att : IsConfigured(att[k][1])
      /\ \A k \in DOMAIN att : k < Len(att) => att[k][2] # "ok"
      /\ \A k \in DOMAIN att : \A m \in {AuthMethods[i] : i \in DOMAIN AuthMethods} :
           (IsConfigured(m) /\ MethodPos(m) < MethodPos(att[k][1])) => m \in MethodsTried

\* True with logged_in at the first success, False without logged_in when
\* every configured method was tried and failed (or none is configured)
LoginResult ==
  LET att == lastLogin.attempts
      succeeded == att # <<>> /\ att[Len(att)][2] = "ok"
  IN  /\ lastLogin.ret \in {"True", "False"}
      /\ lastLogin.ret = "True" <=> succeeded
      /\ lastLogin.ret = "True" => logged_in
      /\ lastLogin.ret = "False" =>
           /\ ~logged_in
           /\ \A i \in DOMAIN AuthMethods :
                IsConfigured(AuthMethods[i]) => AuthMethods[i] \in MethodsTried

====
